---------------------------- MODULE Spec2Model ----------------------------
(***************************************************************************)
(* Model of the card archive browser (src/js/main.js): the record store,   *)
(* the filter engine (getFilteredCards), the sort engine (sortCards), the  *)
(* render step and the detail navigation cursor.                           *)
(*                                                                         *)
(* JavaScript strings are sequences of UTF-16 code units, so that          *)
(* toLowerCase, trim, includes and the relational operator < are computed  *)
(* and not assumed.  JavaScript values carry their type in the field t.    *)
(* Array indices are 0-based as in the source; sequences are 1-based, so   *)
(* currentList[currentIndex] of the source is currentList[currentIndex+1]. *)
(***************************************************************************)
EXTENDS Integers, Sequences, FiniteSets, TLC

VARIABLES
  phase,         \* "loading" until loadCards resolves, then "ready"; "failed" if it rejects
  cards,         \* let cards
  searchInput,   \* searchInput.value
  filterVolume,  \* filterVolume.value
  filterBook,    \* filterBook.value
  filterGender,  \* filterGender.value
  filterReward,  \* filterReward.value
  filterRarity,  \* filterRarity.value
  currentSort,   \* let currentSort = { key, direction }
  filtered,      \* const filtered of the last render()
  currentList,   \* let currentList
  currentIndex,  \* let currentIndex
  detail,        \* ids of the card the detail display shows (empty: placeholder)
  lastEvent      \* the handler that ran last: "none", "render" (load, filter
                 \* and sort handlers), "row", "prev", "next"

vars == <<phase, cards, searchInput, filterVolume, filterBook, filterGender,
          filterReward, filterRarity, currentSort, filtered, currentList,
          currentIndex, detail, lastEvent>>

-----------------------------------------------------------------------------
(* Bounds *)

\* Largest number of records of a loaded collection (program specification).
MaxCards == 3

\* Largest number of records of a collection handed to the sort engine alone.
MaxSortCards == 3

\* Largest number of records of a collection handed to the filter engine alone.
MaxFilterCards == 2

-----------------------------------------------------------------------------
(* JavaScript values *)

Undefined == [t |-> "undefined"]
Num(n) == [t |-> "number", n |-> n]
Str(s) == [t |-> "string", s |-> s]
Arr(a) == [t |-> "array", a |-> a]

\* ToBoolean: undefined, "" and 0 are falsy; arrays are truthy.
Truthy(v) ==
  CASE v.t = "undefined" -> FALSE
    [] v.t = "number" -> v.n # 0
    [] v.t = "string" -> v.s # <<>>
    [] OTHER -> TRUE

\* v == null / v != null
IsNullish(v) == v.t = "undefined"

\* Array.isArray
IsArray(v) == v.t = "array"

\* Strict equality of two values.
StrictEquals(v, w) == v = w

-----------------------------------------------------------------------------
(* Strings *)

\* String.prototype.toLowerCase on the code units A..Z.
toLowerCase(s) ==
  [i \in 1..Len(s) |-> IF s[i] \in 65..90 THEN s[i] + 32 ELSE s[i]]

\* The white space String.prototype.trim strips: tab, LF, CR, space.
IsWhiteSpace(c) == c \in {9, 10, 13, 32}

RECURSIVE trimStart(_)
trimStart(s) ==
  IF s # <<>> /\ IsWhiteSpace(Head(s)) THEN trimStart(Tail(s)) ELSE s

RECURSIVE trimEnd(_)
trimEnd(s) ==
  IF s # <<>> /\ IsWhiteSpace(s[Len(s)])
    THEN trimEnd(SubSeq(s, 1, Len(s) - 1))
    ELSE s

trim(s) == trimEnd(trimStart(s))

\* String.prototype.includes
includes(s, t) ==
  \E i \in 0..(Len(s) - Len(t)) : SubSeq(s, i + 1, i + Len(t)) = t

\* Array.prototype.includes over tags (strict equality of strings).
arrayIncludes(a, x) == \E i \in 1..Len(a) : a[i] = x

\* String(n) for a non-negative integer n.
RECURSIVE NumberToString(_)
NumberToString(n) ==
  IF n < 10 THEN <<48 + n>>
  ELSE NumberToString(n \div 10) \o <<48 + (n % 10)>>

\* String(v) for a number or undefined.
String(v) ==
  IF v.t = "number" THEN NumberToString(v.n)
  ELSE IF v.t = "string" THEN v.s
  ELSE <<117, 110, 100, 101, 102, 105, 110, 101, 100>>   \* "undefined"

\* s < t on strings: lexicographic order of the code units.
RECURSIVE StringLess(_, _)
StringLess(s, t) ==
  IF t = <<>> THEN FALSE
  ELSE IF s = <<>> THEN TRUE
  ELSE IF Head(s) # Head(t) THEN Head(s) < Head(t)
  ELSE StringLess(Tail(s), Tail(t))

-----------------------------------------------------------------------------
(* Vocabulary: the string literals of the source *)

Male == <<77, 97, 108, 101>>                                  \* "Male"
Female == <<70, 101, 109, 97, 108, 101>>                      \* "Female"
NonBinary == <<78, 111, 110, 45, 98, 105, 110, 97, 114, 121>> \* "Non-binary"
Inanimate == <<73, 110, 97, 110, 105, 109, 97, 116, 101>>     \* "Inanimate"
Cups == <<67, 117, 112, 115>>                                 \* "Cups"
Diamonds == <<68, 105, 97, 109, 111, 110, 100, 115>>          \* "Diamonds"
Common == <<67, 111, 109, 109, 111, 110>>                     \* "Common"
Uncommon == <<85, 110, 99, 111, 109, 109, 111, 110>>          \* "Uncommon"
Rare == <<82, 97, 114, 101>>                                  \* "Rare"
Epic == <<69, 112, 105, 99>>                                  \* "Epic"
Legendary == <<76, 101, 103, 101, 110, 100, 97, 114, 121>>    \* "Legendary"

-----------------------------------------------------------------------------
(* Filter engine *)

matchesGender(card, selectedGender) ==
  IF selectedGender = <<>> THEN TRUE
  ELSE LET g == card.gender IN
    IF ~Truthy(g) THEN FALSE
    ELSE IF IsArray(g) THEN arrayIncludes(g.a, selectedGender)
    ELSE StrictEquals(g, Str(selectedGender))

\* matchesBook with a tag set matched by its first tag only.
matchesBookFirstTag(card, selectedBook) ==
  IF selectedBook = <<>> THEN TRUE
  ELSE LET b == card.book IN
    IF ~Truthy(b) THEN FALSE
    ELSE IF IsArray(b) THEN b.a # <<>> /\ b.a[1] = selectedBook
    ELSE StrictEquals(b, Str(selectedBook))

matchesBook(card, selectedBook) ==
  IF selectedBook = <<>> THEN TRUE
  ELSE LET b == card.book IN
    IF ~Truthy(b) THEN FALSE
    ELSE IF IsArray(b) THEN arrayIncludes(b.a, selectedBook)
    ELSE StrictEquals(b, Str(selectedBook))

\* The callback of cards.filter in getFilteredCards: TRUE keeps the card.
filterCallback(card, searchTerm, vol, book, gender, reward, rarity) ==
  IF /\ searchTerm # <<>>
     /\ ~includes(toLowerCase(card.cardName.s), searchTerm)
     /\ ~includes(toLowerCase(card.character.s), searchTerm)
    THEN FALSE
  ELSE IF vol # <<>> /\ String(card.volume) # vol THEN FALSE
  ELSE IF ~matchesBook(card, book) THEN FALSE
  ELSE IF ~matchesGender(card, gender) THEN FALSE
  ELSE IF reward # <<>> /\ ~StrictEquals(card.reward, Str(reward)) THEN FALSE
  ELSE IF rarity # <<>> /\ ~StrictEquals(card.rarity, Str(rarity)) THEN FALSE
  ELSE TRUE

\* arrayFilter with every kept element put in front of the ones kept before.
RECURSIVE arrayFilterUnshift(_, _, _, _, _, _, _)
arrayFilterUnshift(list, searchTerm, vol, book, gender, reward, rarity) ==
  IF list = <<>> THEN <<>>
  ELSE LET rest == arrayFilterUnshift(Tail(list), searchTerm, vol, book,
                                      gender, reward, rarity)
       IN IF filterCallback(Head(list), searchTerm, vol, book, gender,
                            reward, rarity)
            THEN rest \o <<Head(list)>>
            ELSE rest

\* Array.prototype.filter: the kept elements in the order of the list.
RECURSIVE arrayFilter(_, _, _, _, _, _, _)
arrayFilter(list, searchTerm, vol, book, gender, reward, rarity) ==
  IF list = <<>> THEN <<>>
  ELSE LET rest == arrayFilter(Tail(list), searchTerm, vol, book, gender,
                               reward, rarity)
       IN IF filterCallback(Head(list), searchTerm, vol, book, gender,
                            reward, rarity)
            THEN <<Head(list)>> \o rest
            ELSE rest

\* getFilteredCards over the collection `list` and the values of the six
\* filter controls.
getFilteredCards(list, search, vol, book, gender, reward, rarity) ==
  arrayFilter(list, toLowerCase(trim(search)), vol, book, gender, reward,
              rarity)

-----------------------------------------------------------------------------
(* Sort engine *)

\* const factor = direction === "asc" ? 1 : -1
factor(direction) == IF direction = "asc" THEN 1 ELSE -1

\* rarityOrder[r] ?? 999
rarityOrder(r) ==
  IF r = Str(Common) THEN 0
  ELSE IF r = Str(Uncommon) THEN 1
  ELSE IF r = Str(Rare) THEN 2
  ELSE IF r = Str(Epic) THEN 3
  ELSE IF r = Str(Legendary) THEN 4
  ELSE 999

genderRank(card) ==
  LET g == card.gender IN
  IF IsArray(g) THEN 1
  ELSE IF g = Str(Male) THEN 0
  ELSE IF g = Str(Female) THEN 2
  ELSE IF g = Str(NonBinary) THEN 3
  ELSE IF g = Str(Inanimate) THEN 4
  ELSE 99

\* rewardTypeOrder[r] ?? 999
rewardTypeOrder(r) ==
  IF r = Str(Cups) THEN 0
  ELSE IF r = Str(Diamonds) THEN 1
  ELSE 999

\* card.rewardAmount ?? 0
amountOrZero(card) ==
  IF IsNullish(card.rewardAmount) THEN 0 ELSE card.rewardAmount.n

\* card.volume ?? 9999
volumeOrSentinel(card) ==
  IF IsNullish(card.volume) THEN 9999 ELSE card.volume.n

\* rewardTier, in tenths: amount / 10 of the source is not an integer for every
\* amount, so every tier is held as ten times its value (the comparator only
\* takes the sign of a difference of two tiers and tests them for equality).
rewardTier(card) ==
  LET amount == amountOrZero(card) IN
  IF ~Truthy(card.reward) THEN 10 * 9999
  ELSE IF card.reward = Str(Cups) THEN 10 * amount
  ELSE IF card.reward = Str(Diamonds) THEN amount
  ELSE 10 * 9999

rewardDescScore(card) ==
  LET amt == amountOrZero(card) IN
  IF card.reward = Str(Diamonds) THEN amt * 2
  ELSE IF card.reward = Str(Cups) THEN amt
  ELSE -1

\* va < vb of the default branch: numbers by value, strings by code units; an
\* undefined operand converts to NaN and every comparison with it is false.
Less(va, vb) ==
  IF va.t = "number" /\ vb.t = "number" THEN va.n < vb.n
  ELSE IF va.t = "string" /\ vb.t = "string" THEN StringLess(va.s, vb.s)
  ELSE FALSE

\* sortValue with the last tag of an array taken in place of the first.
sortValueLastTag(v) ==
  LET last == IF IsArray(v)
                THEN (IF v.a = <<>> THEN Undefined ELSE Str(v.a[Len(v.a)]))
                ELSE v
  IN IF last.t = "string" THEN Str(toLowerCase(last.s)) ELSE last

\* if (Array.isArray(v)) v = v[0]; if (typeof v === "string") v = v.toLowerCase()
sortValue(v) ==
  LET first == IF IsArray(v)
                 THEN (IF v.a = <<>> THEN Undefined ELSE Str(v.a[1]))
                 ELSE v
  IN IF first.t = "string" THEN Str(toLowerCase(first.s)) ELSE first

\* compareRarity with the reward tier compared ascending in both directions.
compareRarityTierAscending(a, b, direction) ==
  LET ra == rarityOrder(a.rarity)
      rb == rarityOrder(b.rarity)
      ta == rewardTier(a)
      tb == rewardTier(b)
      va == volumeOrSentinel(a)
      vb == volumeOrSentinel(b)
      rta == rewardTypeOrder(a.reward)
      rtb == rewardTypeOrder(b.reward)
  IN IF ra # rb THEN (ra - rb) * factor(direction)
     ELSE IF ta # tb THEN ta - tb
     ELSE IF va # vb THEN va - vb
     ELSE IF rta # rtb THEN rta - rtb
     ELSE a._index - b._index

compareRarity(a, b, direction) ==
  LET ra == rarityOrder(a.rarity)
      rb == rarityOrder(b.rarity)
      ta == rewardTier(a)
      tb == rewardTier(b)
      va == volumeOrSentinel(a)
      vb == volumeOrSentinel(b)
      rta == rewardTypeOrder(a.reward)
      rtb == rewardTypeOrder(b.reward)
  IN IF ra # rb THEN (ra - rb) * factor(direction)
     ELSE IF ta # tb THEN (IF direction = "asc" THEN ta - tb ELSE tb - ta)
     ELSE IF va # vb THEN va - vb
     ELSE IF rta # rtb THEN rta - rtb
     ELSE a._index - b._index

compareGender(a, b, direction) ==
  LET ga == genderRank(a)
      gb == genderRank(b)
  IN IF ga # gb THEN (ga - gb) * factor(direction)
     ELSE a._index - b._index

compareReward(a, b, direction) ==
  IF direction = "asc"
    THEN LET ta == rewardTypeOrder(a.reward)
             tb == rewardTypeOrder(b.reward)
             aa == amountOrZero(a)
             ab == amountOrZero(b)
             va == volumeOrSentinel(a)
             vb == volumeOrSentinel(b)
         IN IF ta # tb THEN ta - tb
            ELSE IF aa # ab THEN aa - ab
            ELSE IF va # vb THEN va - vb
            ELSE a._index - b._index
    ELSE LET sa == rewardDescScore(a)
             sb == rewardDescScore(b)
             va == volumeOrSentinel(a)
             vb == volumeOrSentinel(b)
         IN IF sa # sb THEN sb - sa
            ELSE IF va # vb THEN va - vb
            ELSE a._index - b._index

compareDefault(a, b, key, direction) ==
  LET va == sortValue(a[key])
      vb == sortValue(b[key])
  IN IF Less(va, vb) THEN -1 * factor(direction)
     ELSE IF Less(vb, va) THEN 1 * factor(direction)
     ELSE a._index - b._index

\* The comparator handed to Array.prototype.sort by sortCards.
compare(a, b, key, direction) ==
  IF key = "rarity" THEN compareRarity(a, b, direction)
  ELSE IF key = "gender" THEN compareGender(a, b, direction)
  ELSE IF key = "reward" THEN compareReward(a, b, direction)
  ELSE compareDefault(a, b, key, direction)

\* The elements of a list.
Elements(list) == {list[i] : i \in 1..Len(list)}

\* sign[i][j]: the sign of comparator(list[i], list[j]), for every two
\* positions of the list.
comparisons(list, key, direction) ==
  [i \in 1..Len(list) |->
    [j \in 1..Len(list) |->
      LET c == compare(list[i], list[j], key, direction)
      IN IF c < 0 THEN -1 ELSE IF c > 0 THEN 1 ELSE 0]]

\* ECMAScript's "consistent comparator" for the elements of the list, given
\* the signs of its comparisons: the comparator is antisymmetric and
\* transitive on them.  (No two elements of a list compare equal: their
\* _index differs.)
ConsistentComparator(sign) ==
  LET I == DOMAIN sign
  IN /\ \A x, y \in I : sign[x][y] = -sign[y][x]
     /\ \A x, y, z \in I : sign[x][y] < 0 /\ sign[y][z] < 0 => sign[x][z] < 0

\* The permutations of a list.
Orderings(list) ==
  LET n == Len(list)
      P == {f \in [1..n -> 1..n] : \A i, j \in 1..n : f[i] = f[j] => i = j}
  IN {[i \in 1..n |-> list[f[i]]] : f \in P}

\* The orders [...list].sort(comparator) may return.  With a consistent
\* comparator it is the one permutation in comparator order: the element at
\* (0-based) position r is the one that r elements precede.  With an
\* inconsistent comparator ECMAScript leaves the order to the implementation,
\* and every permutation is possible.
sortCards(list, key, direction) ==
  LET n == Len(list)
      sign == comparisons(list, key, direction)
      before(k) == Cardinality({j \in 1..n : sign[j][k] < 0})
  IN IF ConsistentComparator(sign)
       THEN {[i \in 1..n |-> list[CHOOSE k \in 1..n : before(k) = i - 1]]}
       ELSE Orderings(list)

-----------------------------------------------------------------------------
(* Record collections: what data/cards.json may hold *)

\* One record of the data file.
Record(id, cardName, character, volume, book, gender, rarity, reward, rewardAmount) ==
  [id |-> id, cardName |-> cardName, character |-> character,
   volume |-> volume, book |-> book, gender |-> gender, rarity |-> rarity,
   reward |-> reward, rewardAmount |-> rewardAmount]

\* The records the collections are drawn from, without their id.  Names:
\* "Lu" "lu" "Al" "Bo"; characters: "Ana" "Luz" "bo"; books: "A" "B" "a" "b".
Catalog ==
  << \* A of the rarity example: Epic, Cups/8, volume 3; two books
    Record(Undefined, Str(<<76, 117>>), Str(<<65, 110, 97>>), Num(3),
           Arr(<<(<<66>>), (<<97>>)>>), Str(Female), Str(Epic), Str(Cups),
           Num(8)),
    \* B of the rarity example: Epic, Diamonds/20, volume 1; two genders
    Record(Undefined, Str(<<108, 117>>), Str(<<76, 117, 122>>), Num(1),
           Str(<<98>>), Arr(<<Female, Male>>), Str(Epic), Str(Diamonds),
           Num(20)),
    \* every optional field absent
    Record(Undefined, Str(<<66, 111>>), Str(<<98, 111>>), Undefined,
           Undefined, Undefined, Undefined, Undefined, Undefined),
    \* Rare, Diamonds/2, volume 1
    Record(Undefined, Str(<<65, 108>>), Str(<<65, 110, 97>>), Num(1),
           Str(<<97>>), Str(Male), Str(Rare), Str(Diamonds), Num(2)),
    \* Epic, Cups/2, volume 1: the tier of Diamonds/20
    Record(Undefined, Str(<<76, 117>>), Str(<<98, 111>>), Num(1),
           Str(<<65>>), Str(Female), Str(Epic), Str(Cups), Num(2)),
    \* Legendary, Cups/12, no volume
    Record(Undefined, Str(<<108, 117>>), Str(<<76, 117, 122>>), Undefined,
           Arr(<<(<<65>>), (<<66>>)>>), Str(Inanimate), Str(Legendary),
           Str(Cups), Num(12)) >>

\* The id of the record at position i of the data file: "c0", "c1", ...
IdAt(i) == Str(<<99>> \o NumberToString(i))

\* The collections of 1..n records over a set of records, ids by position.
Collections(pool, n) ==
  UNION {{[i \in 1..k |-> [s[i] EXCEPT !.id = IdAt(i - 1)]] :
            s \in [1..k -> pool]} : k \in 1..n}

\* The data files handed to the sort engine alone.
SortCollections ==
  Collections({Catalog[i] : i \in 1..Len(Catalog)}, MaxSortCards)

\* The data files handed to the filter engine alone.
FilterCollections ==
  Collections({Catalog[i] : i \in 1..4}, MaxFilterCards)

\* The data file the whole program is run on: "Lu"/"Ana", a record with no
\* optional field, "Al"/"Luz" with two books, "lu"/"Ana"; no record has a
\* gender or a rarity.
SiteData ==
  << Record(IdAt(0), Str(<<76, 117>>), Str(<<65, 110, 97>>), Num(1),
            Str(<<65>>), Undefined, Undefined, Str(Cups), Num(8)),
     Record(IdAt(1), Str(<<66, 111>>), Str(<<98, 111>>), Undefined,
            Undefined, Undefined, Undefined, Undefined, Undefined),
     Record(IdAt(2), Str(<<65, 108>>), Str(<<76, 117, 122>>), Num(1),
            Arr(<<(<<65>>), (<<66>>)>>), Undefined, Undefined,
            Str(Diamonds), Num(20)),
     Record(IdAt(3), Str(<<108, 117>>), Str(<<65, 110, 97>>), Num(1),
            Str(<<66>>), Undefined, Undefined, Str(Cups), Num(2)) >>

\* The data files of the whole program: the first 1..MaxCards records of
\* SiteData.
DataFiles ==
  {SubSeq(SiteData, 1, n) :
     n \in 1..(IF MaxCards < Len(SiteData) THEN MaxCards ELSE Len(SiteData))}

\* loadCards: cards.forEach((card, index) => { card._index = index })
assignIndex(data) ==
  [i \in 1..Len(data) |-> data[i] @@ ("_index" :> (i - 1))]

-----------------------------------------------------------------------------
(* The values the controls can take *)

\* The texts typed into the search box: "", "  ", " Lu", "a", "LUZ ".
SearchTerms ==
  {<<>>, <<32, 32>>, <<32, 76, 117>>, <<97>>, <<76, 85, 90, 32>>}

\* The texts typed into the search box of the whole program: "", " Lu".
SiteSearchTerms == {<<>>, <<32, 76, 117>>}

\* The tags of a single-or-array field that populateFilterOptions adds.
TagsOf(v) ==
  IF ~Truthy(v) THEN {}
  ELSE IF IsArray(v) THEN {v.a[i] : i \in 1..Len(v.a)}
  ELSE {v.s}

\* populateFilterOptions: the option values of each select.  The empty option
\* ("all") is the one of the page; clear-filters selects it.
volumeOptions(list) ==
  {<<>>} \cup {String(c.volume) : c \in {d \in Elements(list) : ~IsNullish(d.volume)}}

bookOptions(list) ==
  {<<>>} \cup {b \in UNION {TagsOf(c.book) : c \in Elements(list)} : b # <<>>}

rarityOptions(list) ==
  {<<>>} \cup ({Common, Uncommon, Rare, Epic, Legendary}
                 \cap UNION {TagsOf(c.rarity) : c \in Elements(list)})

genderOptions(list) ==
  {<<>>} \cup ({Male, Female, NonBinary, Inanimate}
                 \cap UNION {TagsOf(c.gender) : c \in Elements(list)})

\* The options of the reward select are written in the page.
rewardOptions == {<<>>, Cups, Diamonds}

\* data-sort-key of the table headers: the columns render() writes.
HeaderKeys == {"cardName", "character", "volume", "rarity", "reward"}

\* The keys the comparator of sortCards is written for: the columns, and
\* the tag fields its gender and default branches name.
SortKeys == HeaderKeys \cup {"book", "gender"}

-----------------------------------------------------------------------------
(* Operations *)

\* currentList.findIndex(c => c.id === cardId)
findIndex(list, cardId) ==
  IF \E i \in 1..Len(list) : list[i].id = cardId
    THEN (CHOOSE i \in 1..Len(list) :
            /\ list[i].id = cardId
            /\ \A j \in 1..(i - 1) : list[j].id # cardId) - 1
    ELSE -1

\* render(): filter, sort, replace currentList.
render(list, search, vol, book, gender, reward, rarity, sort) ==
  LET out == getFilteredCards(list, search, vol, book, gender, reward, rarity)
  IN /\ filtered' = out
     /\ currentList' \in sortCards(out, sort.key, sort.direction)
     /\ lastEvent' = "render"

Init ==
  /\ phase = "loading"
  /\ cards = <<>>
  /\ searchInput = <<>>
  /\ filterVolume = <<>>
  /\ filterBook = <<>>
  /\ filterGender = <<>>
  /\ filterReward = <<>>
  /\ filterRarity = <<>>
  /\ currentSort = [key |-> "volume", direction |-> "asc"]
  /\ filtered = <<>>
  /\ currentList = <<>>
  /\ currentIndex = -1
  /\ detail = {}
  /\ lastEvent = "none"

\* init(): loadCards resolves with the records of the data file, then the
\* options are populated, the listeners attached and the first render runs.
LoadCards(data) ==
  /\ phase = "loading"
  /\ phase' = "ready"
  /\ cards' = assignIndex(data)
  /\ render(cards', searchInput, filterVolume, filterBook, filterGender,
            filterReward, filterRarity, currentSort)
  /\ UNCHANGED <<searchInput, filterVolume, filterBook, filterGender,
                 filterReward, filterRarity, currentSort, currentIndex,
                 detail>>

\* init() with a rejected load that goes on as if an empty collection had
\* been loaded.
LoadFailsThenRendersEmpty ==
  /\ phase = "loading"
  /\ phase' = "ready"
  /\ cards' = <<>>
  /\ render(cards', searchInput, filterVolume, filterBook, filterGender,
            filterReward, filterRarity, currentSort)
  /\ UNCHANGED <<searchInput, filterVolume, filterBook, filterGender,
                 filterReward, filterRarity, currentSort, currentIndex,
                 detail>>

\* init(): fetch or response.json() rejects; nothing after the await runs.
LoadFails ==
  /\ phase = "loading"
  /\ phase' = "failed"
  /\ UNCHANGED <<cards, searchInput, filterVolume, filterBook, filterGender,
                 filterReward, filterRarity, currentSort, filtered,
                 currentList, currentIndex, detail, lastEvent>>

\* The user edits the search box and the reward select of the page while no
\* listener is attached (init() is suspended at the await, or has rejected):
\* the controls take the values and no code of the program runs.
EditControlsUnheard(text, r) ==
  /\ phase \in {"loading", "failed"}
  /\ searchInput' = text
  /\ filterReward' = r
  /\ UNCHANGED <<phase, cards, filterVolume, filterBook, filterGender,
                 filterRarity, currentSort, filtered, currentList,
                 currentIndex, detail, lastEvent>>

\* searchInput "input" listener
SearchInput(text) ==
  /\ phase = "ready"
  /\ searchInput' = text
  /\ render(cards, text, filterVolume, filterBook, filterGender,
            filterReward, filterRarity, currentSort)
  /\ UNCHANGED <<phase, cards, filterVolume, filterBook, filterGender,
                 filterReward, filterRarity, currentSort, currentIndex,
                 detail>>

\* filterVolume "change" listener
ChangeVolume(v) ==
  /\ phase = "ready"
  /\ v \in volumeOptions(cards)
  /\ filterVolume' = v
  /\ render(cards, searchInput, v, filterBook, filterGender, filterReward,
            filterRarity, currentSort)
  /\ UNCHANGED <<phase, cards, searchInput, filterBook, filterGender,
                 filterReward, filterRarity, currentSort, currentIndex,
                 detail>>

\* filterBook "change" listener
ChangeBook(b) ==
  /\ phase = "ready"
  /\ b \in bookOptions(cards)
  /\ filterBook' = b
  /\ render(cards, searchInput, filterVolume, b, filterGender, filterReward,
            filterRarity, currentSort)
  /\ UNCHANGED <<phase, cards, searchInput, filterVolume, filterGender,
                 filterReward, filterRarity, currentSort, currentIndex,
                 detail>>

\* filterGender "change" listener
ChangeGender(g) ==
  /\ phase = "ready"
  /\ g \in genderOptions(cards)
  /\ filterGender' = g
  /\ render(cards, searchInput, filterVolume, filterBook, g, filterReward,
            filterRarity, currentSort)
  /\ UNCHANGED <<phase, cards, searchInput, filterVolume, filterBook,
                 filterReward, filterRarity, currentSort, currentIndex,
                 detail>>

\* filterReward "change" listener
ChangeReward(r) ==
  /\ phase = "ready"
  /\ r \in rewardOptions
  /\ filterReward' = r
  /\ render(cards, searchInput, filterVolume, filterBook, filterGender, r,
            filterRarity, currentSort)
  /\ UNCHANGED <<phase, cards, searchInput, filterVolume, filterBook,
                 filterGender, filterRarity, currentSort, currentIndex,
                 detail>>

\* filterRarity "change" listener
ChangeRarity(r) ==
  /\ phase = "ready"
  /\ r \in rarityOptions(cards)
  /\ filterRarity' = r
  /\ render(cards, searchInput, filterVolume, filterBook, filterGender,
            filterReward, r, currentSort)
  /\ UNCHANGED <<phase, cards, searchInput, filterVolume, filterBook,
                 filterGender, filterReward, currentSort, currentIndex,
                 detail>>

\* click listener of a table header with data-sort-key = key
HeaderClick(key) ==
  /\ phase = "ready"
  /\ currentSort' =
       IF currentSort.key = key
         THEN [key |-> key,
               direction |-> IF currentSort.direction = "asc" THEN "desc"
                             ELSE "asc"]
         ELSE [key |-> key, direction |-> "asc"]
  /\ render(cards, searchInput, filterVolume, filterBook, filterGender,
            filterReward, filterRarity, currentSort')
  /\ UNCHANGED <<phase, cards, searchInput, filterVolume, filterBook,
                 filterGender, filterReward, filterRarity, currentIndex,
                 detail>>

\* click listener of #clear-filters
ClearFilters ==
  /\ phase = "ready"
  /\ searchInput' = <<>>
  /\ filterVolume' = <<>>
  /\ filterBook' = <<>>
  /\ filterGender' = <<>>
  /\ filterReward' = <<>>
  /\ filterRarity' = <<>>
  /\ render(cards, <<>>, <<>>, <<>>, <<>>, <<>>, <<>>, currentSort)
  /\ UNCHANGED <<phase, cards, currentSort, currentIndex, detail>>

\* click listener of #clear-sorting
\* The clear-sorting listener without its call of render().
ClearSortingKeepsView ==
  /\ phase = "ready"
  /\ currentSort' = [key |-> "volume", direction |-> "asc"]
  /\ UNCHANGED <<phase, cards, searchInput, filterVolume, filterBook,
                 filterGender, filterReward, filterRarity, filtered,
                 currentList, currentIndex, detail, lastEvent>>

ClearSorting ==
  /\ phase = "ready"
  /\ currentSort' = [key |-> "volume", direction |-> "asc"]
  /\ render(cards, searchInput, filterVolume, filterBook, filterGender,
            filterReward, filterRarity, currentSort')
  /\ UNCHANGED <<phase, cards, searchInput, filterVolume, filterBook,
                 filterGender, filterReward, filterRarity, currentIndex,
                 detail>>

\* showCardDetails(card): the detail display shows the card.
showCardDetails(card) == detail' = {card.id}

\* click listener of the table body, on the row of currentList[i] (1-based):
\* every row of the table is a record of currentList, which render() wrote.
RowClick(i) ==
  /\ phase = "ready"
  /\ i \in 1..Len(currentList)
  /\ LET cardId == currentList[i].id IN
       /\ \E c \in Elements(cards) : c.id = cardId
       /\ currentIndex' = findIndex(currentList, cardId)
       /\ showCardDetails(CHOOSE c \in Elements(cards) : c.id = cardId)
  /\ lastEvent' = "row"
  /\ UNCHANGED <<phase, cards, searchInput, filterVolume, filterBook,
                 filterGender, filterReward, filterRarity, currentSort,
                 filtered, currentList>>

showPrevCard ==
  /\ phase = "ready"
  /\ lastEvent' = "prev"
  /\ IF currentIndex <= 0
       THEN UNCHANGED <<currentIndex, detail>>
       ELSE /\ currentIndex' = currentIndex - 1
            /\ IF currentIndex' + 1 \in 1..Len(currentList)
                 THEN showCardDetails(currentList[currentIndex' + 1])
                 ELSE UNCHANGED detail
  /\ UNCHANGED <<phase, cards, searchInput, filterVolume, filterBook,
                 filterGender, filterReward, filterRarity, currentSort,
                 filtered, currentList>>

showNextCard ==
  /\ phase = "ready"
  /\ lastEvent' = "next"
  /\ IF currentIndex < 0 \/ currentIndex >= Len(currentList) - 1
       THEN UNCHANGED <<currentIndex, detail>>
       ELSE /\ currentIndex' = currentIndex + 1
            /\ IF currentIndex' + 1 \in 1..Len(currentList)
                 THEN showCardDetails(currentList[currentIndex' + 1])
                 ELSE UNCHANGED detail
  /\ UNCHANGED <<phase, cards, searchInput, filterVolume, filterBook,
                 filterGender, filterReward, filterRarity, currentSort,
                 filtered, currentList>>

Next ==
  \/ \E data \in DataFiles : LoadCards(data)
  \/ LoadFails
  \/ \E text \in SiteSearchTerms, r \in rewardOptions :
       EditControlsUnheard(text, r)
  \/ \E text \in SiteSearchTerms : SearchInput(text)
  \/ \E v \in volumeOptions(cards) : ChangeVolume(v)
  \/ \E b \in bookOptions(cards) : ChangeBook(b)
  \/ \E g \in genderOptions(cards) : ChangeGender(g)
  \/ \E r \in rewardOptions : ChangeReward(r)
  \/ \E r \in rarityOptions(cards) : ChangeRarity(r)
  \/ \E key \in HeaderKeys : HeaderClick(key)
  \/ ClearFilters
  \/ ClearSorting
  \/ \E i \in 1..MaxCards : RowClick(i)
  \/ showPrevCard
  \/ showNextCard

Spec == Init /\ [][Next]_vars

-----------------------------------------------------------------------------
(* The sort engine alone: a loaded and rendered collection, then header     *)
(* clicks and clear-sorting.                                                *)

InitSort ==
  \E data \in SortCollections :
    /\ phase = "ready"
    /\ cards = assignIndex(data)
    /\ searchInput = <<>>
    /\ filterVolume = <<>>
    /\ filterBook = <<>>
    /\ filterGender = <<>>
    /\ filterReward = <<>>
    /\ filterRarity = <<>>
    /\ currentSort = [key |-> "volume", direction |-> "asc"]
    /\ filtered = cards
    /\ currentList \in sortCards(cards, "volume", "asc")
    /\ currentIndex = -1
    /\ detail = {}
    /\ lastEvent = "render"

NextSort ==
  \/ \E key \in SortKeys : HeaderClick(key)
  \/ ClearSorting

SortSpec == InitSort /\ [][NextSort]_vars

-----------------------------------------------------------------------------
(* The filter engine alone: a loaded and rendered collection, then the      *)
(* search box, the five selects and clear-filters.                          *)

InitFilter ==
  \E data \in FilterCollections :
    /\ phase = "ready"
    /\ cards = assignIndex(data)
    /\ searchInput = <<>>
    /\ filterVolume = <<>>
    /\ filterBook = <<>>
    /\ filterGender = <<>>
    /\ filterReward = <<>>
    /\ filterRarity = <<>>
    /\ currentSort = [key |-> "volume", direction |-> "asc"]
    /\ filtered = cards
    /\ currentList \in sortCards(cards, "volume", "asc")
    /\ currentIndex = -1
    /\ detail = {}
    /\ lastEvent = "render"

NextFilter ==
  \/ \E text \in SearchTerms : SearchInput(text)
  \/ \E v \in volumeOptions(cards) : ChangeVolume(v)
  \/ \E b \in bookOptions(cards) : ChangeBook(b)
  \/ \E g \in genderOptions(cards) : ChangeGender(g)
  \/ \E r \in rewardOptions : ChangeReward(r)
  \/ \E r \in rarityOptions(cards) : ChangeRarity(r)
  \/ ClearFilters

FilterSpec == InitFilter /\ [][NextFilter]_vars

-----------------------------------------------------------------------------
(* Properties of the sort engine (checked under SortSpec) *)

\* The View holds a at an earlier position than b.
Precedes(a, b) ==
  \E i, j \in 1..Len(currentList) :
    i < j /\ currentList[i] = a /\ currentList[j] = b

\* The ids of a list, in order.
Ids(list) == [i \in 1..Len(list) |-> list[i].id]

\* C1: for every sort specification and every record collection, records with
\* absent optional fields included, the comparator of sortCards is a strict
\* total order over the records (antisymmetric and transitive), so the sorted
\* result is the same for every order of the input list, and sorting the
\* sorted list returns it unchanged.
C1_ComparatorIsStrictTotalOrder ==
  phase = "ready" =>
    /\ ConsistentComparator(
         comparisons(filtered, currentSort.key, currentSort.direction))
    /\ \A p \in Orderings(filtered) :
         sortCards(p, currentSort.key, currentSort.direction) = {currentList}
    /\ sortCards(currentList, currentSort.key, currentSort.direction)
         = {currentList}

\* The order of the claims' "volume ascending (absent volume last), then
\* originalPosition ascending".
VolumeThenPosition(a, b) ==
  IF a.volume # b.volume
    THEN \/ /\ ~IsNullish(a.volume)
            /\ IsNullish(b.volume)
         \/ /\ ~IsNullish(a.volume)
            /\ ~IsNullish(b.volume)
            /\ a.volume.n < b.volume.n
    ELSE a._index < b._index

\* C2: in a descending reward sort every Diamonds record is placed before
\* every Cups record, whatever the amounts; within one reward type the larger
\* rewardAmount is first, and equal amounts are ordered by volume ascending
\* (absent volume last), then by originalPosition.
C2_DiamondsBeforeCupsDescending ==
  (phase = "ready" /\ currentSort = [key |-> "reward", direction |-> "desc"]) =>
    \A i, j \in 1..Len(currentList) :
      LET a == currentList[i]
          b == currentList[j]
      IN (i < j /\ a.reward \in {Str(Cups), Str(Diamonds)}
                /\ b.reward \in {Str(Cups), Str(Diamonds)}) =>
           IF a.reward # b.reward THEN a.reward = Str(Diamonds)
           ELSE IF amountOrZero(a) # amountOrZero(b)
             THEN amountOrZero(a) > amountOrZero(b)
           ELSE VolumeThenPosition(a, b)

\* The rank of a named rarity: Common < Uncommon < Rare < Epic < Legendary.
NamedRarityRank(r) ==
  CASE r = Str(Common) -> 0
    [] r = Str(Uncommon) -> 1
    [] r = Str(Rare) -> 2
    [] r = Str(Epic) -> 3
    [] r = Str(Legendary) -> 4

IsNamedRarity(r) ==
  r \in {Str(Common), Str(Uncommon), Str(Rare), Str(Epic), Str(Legendary)}

\* a's reward tier is below b's: rewardAmount for Cups, rewardAmount / 10 for
\* Diamonds (compared as amount * 10 against amount), and no reward above
\* every amount.
TierBelow(a, b) ==
  LET hasA == a.reward \in {Str(Cups), Str(Diamonds)}
      hasB == b.reward \in {Str(Cups), Str(Diamonds)}
      tenths(c) == IF c.reward = Str(Cups) THEN 10 * amountOrZero(c)
                   ELSE amountOrZero(c)
  IN IF hasA /\ hasB THEN tenths(a) < tenths(b)
     ELSE hasA /\ ~hasB

\* The five levels of the rarity sort, for a placed before b.
RarityLevels(a, b, direction) ==
  IF a.rarity # b.rarity
    THEN (IsNamedRarity(a.rarity) /\ IsNamedRarity(b.rarity)) =>
           IF direction = "asc"
             THEN NamedRarityRank(a.rarity) < NamedRarityRank(b.rarity)
             ELSE NamedRarityRank(a.rarity) > NamedRarityRank(b.rarity)
  ELSE IF TierBelow(a, b) \/ TierBelow(b, a)
    THEN IF direction = "asc" THEN TierBelow(a, b) ELSE TierBelow(b, a)
  ELSE IF a.volume # b.volume
    THEN VolumeThenPosition(a, b)
  ELSE IF a.reward # b.reward
    THEN a.reward = Str(Cups) /\ b.reward = Str(Diamonds)
  ELSE a._index < b._index

\* C4: the rarity sort orders the records by five levels: rarity rank (flipped
\* by the direction), reward tier (ascending when ascending, reversed when
\* descending), volume ascending in both directions with absent volume last,
\* Cups before Diamonds in both directions, originalPosition ascending.
C4_RarityFiveLevels ==
  (phase = "ready" /\ currentSort.key = "rarity") =>
    \A i, j \in 1..Len(currentList) :
      i < j => RarityLevels(currentList[i], currentList[j],
                            currentSort.direction)

\* A(Epic, Cups, 8, volume 3) and B(Epic, Diamonds, 20, volume 1).
IsExampleA(c) ==
  /\ c.rarity = Str(Epic)
  /\ c.reward = Str(Cups)
  /\ c.rewardAmount = Num(8)
  /\ c.volume = Num(3)

IsExampleB(c) ==
  /\ c.rarity = Str(Epic)
  /\ c.reward = Str(Diamonds)
  /\ c.rewardAmount = Num(20)
  /\ c.volume = Num(1)

\* C4, the example: ascending places B before A, descending A before B.
C4_ExampleAB ==
  (phase = "ready" /\ currentSort.key = "rarity") =>
    \A a, b \in Elements(currentList) :
      (IsExampleA(a) /\ IsExampleB(b)) =>
        IF currentSort.direction = "asc" THEN Precedes(b, a)
        ELSE Precedes(a, b)

KeyAbsent(c, key) == IsNullish(c[key])

\* C5: for every sort key and both directions, a record with no value for the
\* sort field is placed after every record that has one.
C5_AbsentValuesSortLast ==
  phase = "ready" =>
    \A i, j \in 1..Len(currentList) :
      i < j => ~(/\ KeyAbsent(currentList[i], currentSort.key)
                 /\ ~KeyAbsent(currentList[j], currentSort.key))

\* The record with the tag set of its field replaced by the first tag.
FirstTagOnly(c, key) ==
  IF IsArray(c[key]) /\ c[key].a # <<>>
    THEN [c EXCEPT ![key] = Str(c[key].a[1])]
    ELSE c

\* The record with the tag set of its field replaced by the first tag in
\* lower case.
FirstTagLowerCase(c, key) ==
  IF IsArray(c[key]) /\ c[key].a # <<>>
    THEN [c EXCEPT ![key] = Str(toLowerCase(c[key].a[1]))]
    ELSE c

Sign(n) == IF n < 0 THEN -1 ELSE IF n > 0 THEN 1 ELSE 0

\* For the sort key `key`, every record with a tag set compares with every
\* record as the record holding its first tag does, in either case of the
\* letters, and the View is in the order of the collection so rewritten.
ComparedByFirstTag(key) ==
  LET dir == currentSort.direction
      single == [i \in 1..Len(filtered) |-> FirstTagOnly(filtered[i], key)]
      lower == [i \in 1..Len(filtered) |-> FirstTagLowerCase(filtered[i], key)]
  IN /\ \A a, b \in Elements(filtered) :
          a # b =>
          /\ Sign(compare(a, b, key, dir))
               = Sign(compare(FirstTagOnly(a, key), b, key, dir))
          /\ Sign(compare(b, a, key, dir))
               = Sign(compare(b, FirstTagOnly(a, key), key, dir))
          /\ Sign(compare(a, b, key, dir))
               = Sign(compare(FirstTagLowerCase(a, key), b, key, dir))
     /\ {Ids(p) : p \in sortCards(single, key, dir)}
          = {Ids(p) : p \in sortCards(filtered, key, dir)}
     /\ {Ids(p) : p \in sortCards(lower, key, dir)}
          = {Ids(p) : p \in sortCards(filtered, key, dir)}
     /\ Ids(currentList) \in {Ids(p) : p \in sortCards(single, key, dir)}

KeyValue(c, key) == sortValue(c[key])

\* C10: for a generic sort key (a key of the default branch), a header click
\* that switches the direction reverses the relative order of every two
\* records whose key values differ, and leaves two records with equal key
\* values in the order of their originalPosition.
C10_DirectionReversesGenericKey ==
  [][(/\ phase = "ready"
      /\ currentSort.key \notin {"rarity", "reward", "gender"}
      /\ currentSort'.key = currentSort.key
      /\ currentSort'.direction # currentSort.direction)
     => \A i, j \in 1..Len(currentList) :
          i < j =>
            LET a == currentList[i]
                b == currentList[j]
                ai == CHOOSE k \in 1..Len(currentList') : currentList'[k] = a
                bi == CHOOSE k \in 1..Len(currentList') : currentList'[k] = b
            IN IF KeyValue(a, currentSort.key) # KeyValue(b, currentSort.key)
                 THEN bi < ai
                 ELSE a._index < b._index /\ ai < bi]_vars

-----------------------------------------------------------------------------
(* Properties of the filter engine (C6 under FilterSpec, C7 under Spec) *)

\* A code unit with its letter case folded.
FoldCase(c) == IF c \in 65..90 THEN c + 32 ELSE c

\* t occurs in s, letter case ignored.
OccursIgnoringCase(t, s) ==
  \E off \in 0..(Len(s) - Len(t)) :
    \A k \in 1..Len(t) : FoldCase(s[off + k]) = FoldCase(t[k])

\* Positions i..j of s are s without the white space at its two ends.
IsTrimmedPart(s, i, j) ==
  /\ \A k \in 1..(i - 1) : s[k] \in {9, 10, 13, 32}
  /\ \A k \in (j + 1)..Len(s) : s[k] \in {9, 10, 13, 32}
  /\ i <= j => (s[i] \notin {9, 10, 13, 32} /\ s[j] \notin {9, 10, 13, 32})

\* The number a decimal numeral denotes.
RECURSIVE NumeralValue(_)
NumeralValue(t) ==
  IF t = <<>> THEN 0
  ELSE 10 * NumeralValue(SubSeq(t, 1, Len(t) - 1)) + (t[Len(t)] - 48)

\* The search criterion: the trimmed term is empty or occurs in cardName or
\* in character.
SearchMatches(c) ==
  \E i \in 1..(Len(searchInput) + 1), j \in 0..Len(searchInput) :
    /\ IsTrimmedPart(searchInput, i, j)
    /\ LET term == SubSeq(searchInput, i, j)
       IN \/ term = <<>>
          \/ OccursIgnoringCase(term, c.cardName.s)
          \/ OccursIgnoringCase(term, c.character.s)

\* The volume criterion: the record has a volume whose text is the criterion.
VolumeMatches(c) ==
  \/ filterVolume = <<>>
  \/ /\ c.volume.t = "number"
     /\ \A k \in 1..Len(filterVolume) : filterVolume[k] \in 48..57
     /\ NumeralValue(filterVolume) = c.volume.n

\* A single-or-set field against a criterion: equal to it, or a set of tags
\* that contains it; an absent field matches no criterion.
TagMatches(field, criterion) ==
  \/ criterion = <<>>
  \/ field = Str(criterion)
  \/ /\ field.t = "array"
     /\ criterion \in {field.a[k] : k \in 1..Len(field.a)}

\* An exact-equality criterion.
ExactMatches(field, criterion) ==
  criterion = <<>> \/ field = Str(criterion)

MatchesEveryCriterion(c) ==
  /\ SearchMatches(c)
  /\ VolumeMatches(c)
  /\ TagMatches(c.book, filterBook)
  /\ TagMatches(c.gender, filterGender)
  /\ ExactMatches(c.reward, filterReward)
  /\ ExactMatches(c.rarity, filterRarity)

NoCriterionActive ==
  /\ searchInput = <<>>
  /\ filterVolume = <<>>
  /\ filterBook = <<>>
  /\ filterGender = <<>>
  /\ filterReward = <<>>
  /\ filterRarity = <<>>

\* C6: getFilteredCards returns exactly the records that satisfy every active
\* criterion (search term trimmed and case-insensitive in cardName or
\* character, volume as text, book and gender by equality or membership,
\* reward and rarity by equality), and all the records when no criterion is
\* active; the View holds the same records.
C6_FilterKeepsExactlyTheMatches ==
  phase = "ready" =>
    /\ \A c \in Elements(cards) :
         (c \in Elements(filtered)) <=> MatchesEveryCriterion(c)
    /\ Len(filtered) = Cardinality(Elements(filtered))
    /\ Elements(currentList) = Elements(filtered)
    /\ NoCriterionActive => filtered = cards

\* C6's case: a white-space search term and a book criterion that keeps a
\* record by one tag of its tag set, not the first, and drops a record with
\* no book.
C6_Witness ==
  /\ phase = "ready"
  /\ searchInput = <<32, 32>>
  /\ filterBook # <<>>
  /\ \E c, d \in Elements(cards) :
       /\ IsArray(c.book) /\ c.book.a[1] # filterBook
       /\ c \in Elements(filtered)
       /\ IsNullish(d.book)
       /\ d \notin Elements(filtered)

\* C7: the filter output is a subsequence of the loaded collection in its
\* original relative order (increasing originalPosition), and filtering the
\* output again with the same criteria returns the same sequence.
C7_FilterIsOrderedSubsequenceAndIdempotent ==
  phase = "ready" =>
    /\ \A i \in 1..Len(filtered) :
         /\ filtered[i]._index + 1 \in 1..Len(cards)
         /\ filtered[i] = cards[filtered[i]._index + 1]
    /\ \A i, j \in 1..Len(filtered) :
         i < j => filtered[i]._index < filtered[j]._index
    /\ getFilteredCards(filtered, searchInput, filterVolume, filterBook,
                        filterGender, filterReward, filterRarity) = filtered

\* C7's case: of three records the filter keeps the first and the third, and
\* the sort shows them in the other order.
C7_Witness ==
  /\ phase = "ready"
  /\ Len(cards) = 3
  /\ ~NoCriterionActive
  /\ filtered = <<cards[1], cards[3]>>
  /\ currentList = <<cards[3], cards[1]>>

-----------------------------------------------------------------------------
(* Properties of the navigation cursor (checked under Spec) *)

\* The cursor is a position of the View.
CursorInView == currentIndex \in 0..(Len(currentList) - 1)

\* C3: after any sequence of events the cursor is unset (-1) or a valid index
\* of the View at which the View holds the record the detail display shows.
C3_CursorUnsetOrOnShownRecord ==
  phase = "ready" =>
    \/ currentIndex = -1
    \/ /\ CursorInView
       /\ detail = {currentList[currentIndex + 1].id}

\* C8: previous and next move a set cursor by exactly one position and never
\* outside the View: previous at position 0 and next at the last position
\* leave the cursor unchanged (no wraparound), and with the cursor unset both
\* do nothing.
C8_PrevNextMoveByOneClamped ==
  [][(lastEvent' \in {"prev", "next"}) =>
       /\ currentList' = currentList
       /\ currentIndex = -1 => (currentIndex' = -1 /\ detail' = detail)
       /\ currentIndex' # currentIndex =>
            /\ currentIndex' \in 0..(Len(currentList) - 1)
            /\ detail' = {currentList[currentIndex' + 1].id}
       /\ currentIndex' = currentIndex => detail' = detail
       /\ lastEvent' = "prev" =>
            currentIndex' = IF currentIndex > 0 THEN currentIndex - 1
                            ELSE currentIndex
       /\ lastEvent' = "next" =>
            /\ currentIndex >= Len(currentList) - 1
                 => currentIndex' = currentIndex
            /\ (currentIndex >= 0 /\ currentIndex < Len(currentList) - 1)
                 => currentIndex' = currentIndex + 1]_vars

-----------------------------------------------------------------------------
(* Properties of the start-up and of the View (checked under Spec) *)

\* No filter, sort or render step has run and no handler has acted.
NothingComputed ==
  /\ cards = <<>>
  /\ filtered = <<>>
  /\ currentList = <<>>
  /\ currentIndex = -1
  /\ detail = {}
  /\ lastEvent = "none"
  /\ currentSort = [key |-> "volume", direction |-> "asc"]

\* C11: no filter, sort or render step runs and no event handler acts before
\* the one asynchronous load has completed; the first render runs on the
\* whole loaded collection, the collection is loaded once, and after a failed
\* load no View is ever computed and the engine never proceeds with an empty
\* or partial collection.
C11_NothingRunsBeforeLoadCompletes ==
  /\ [](phase # "ready" => NothingComputed)
  /\ [][/\ phase = "failed" => phase' = "failed"
        /\ phase = "ready" => (phase' = "ready" /\ cards' = cards)
        /\ (phase = "loading" /\ phase' = "ready") =>
             /\ \E data \in DataFiles : cards' = assignIndex(data)
             /\ lastEvent' = "render"
             /\ filtered' = getFilteredCards(cards', searchInput, filterVolume,
                                             filterBook, filterGender,
                                             filterReward, filterRarity)
             /\ Elements(currentList') = Elements(filtered')]_vars

\* C11's case: the load has failed and the user has typed a search term and
\* chosen a reward type, and nothing has been computed.
C11_Witness ==
  /\ phase = "failed"
  /\ searchInput # <<>>
  /\ filterReward # <<>>
  /\ NothingComputed

\* C12: after the initial render and after every handled filter change,
\* clear-filters, header click and clear-sorting, the View is the sort, under
\* the current sort specification, of the filter of the loaded collection
\* under the current criteria; filtering, sorting and navigating change
\* neither the order of the loaded collection nor the originalPosition of a
\* record, and navigating leaves the View as it is.
C12_ViewIsSortOfFilter ==
  /\ [](phase = "ready" =>
          /\ filtered = getFilteredCards(cards, searchInput, filterVolume,
                                         filterBook, filterGender,
                                         filterReward, filterRarity)
          /\ currentList \in sortCards(filtered, currentSort.key,
                                       currentSort.direction)
          /\ \A i \in 1..Len(cards) : cards[i]._index = i - 1
          /\ \A k \in 1..Len(currentList) :
               /\ currentList[k]._index + 1 \in 1..Len(cards)
               /\ currentList[k] = cards[currentList[k]._index + 1]
          /\ ConsistentComparator(comparisons(filtered, currentSort.key,
                                              currentSort.direction))
               => \A i, j \in 1..Len(currentList) :
                    i < j => compare(currentList[i], currentList[j],
                                     currentSort.key,
                                     currentSort.direction) < 0)
  /\ [][phase = "ready" =>
          /\ cards' = cards
          /\ lastEvent' \in {"row", "prev", "next"} =>
               /\ currentList' = currentList
               /\ currentSort' = currentSort]_vars

\* C12's case: a render has run with a criterion active and a sort chosen by
\* a header click, a record is on display, and the View holds fewer records
\* than the collection, in another order than the load order.
C12_Witness ==
  /\ phase = "ready"
  /\ lastEvent = "render"
  /\ ~NoCriterionActive
  /\ currentSort # [key |-> "volume", direction |-> "asc"]
  /\ currentIndex # -1
  /\ Len(currentList) >= 2
  /\ Len(currentList) < Len(cards)
  /\ currentList # filtered

=============================================================================
